---- MODULE Spec2Model ----
(***************************************************************************)
(* PickBetter product service: cache-first lookup by barcode, upsert of    *)
(* fetched Open Food Facts data, bulk seeding and the search boundary.     *)
(*                                                                         *)
(* Time is counted in whole days.  Optional values are sets of at most one *)
(* element ({} is Python's None) so that rows never get compared with a    *)
(* marker of another type.                                                 *)
(***************************************************************************)
EXTENDS Integers, Sequences, FiniteSets, TLC

\* ------------------------------------------------------------------ bounds
MaxTicks == 2        \* how often the clock advances
MaxBatch == 2        \* longest batch the external search returns to seed

\* ------------------------------------------------------- program constants
PRODUCT_CACHE_DAYS == 30

\* ------------------------------------------------------------ value domains
ClockStep == PRODUCT_CACHE_DAYS \div 2
\* PRODUCT_CACHE_DAYS is a setting: the default and one override are tried.
CacheDayChoices == {PRODUCT_CACHE_DAYS \div 2, PRODUCT_CACHE_DAYS}
NoTime == -1                         \* an absent (None) timestamp
NoneVal == "None"                    \* a column or field holding None
Unset == "Unset"                     \* a pydantic field that was never set
Barcodes == {"b1", "b2"}
Names == {"n1"}
Brands == {"bx"}
Sugars == {"s1"}

\* What Open Food Facts can hand back for one product.  A missing or empty
\* "code"/"product_name" is NoneVal.
RawRecords ==
    [code : Barcodes \cup {NoneVal},
     product_name : Names \cup {NoneVal},
     brand : Brands \cup {NoneVal, Unset},
     nutriments : {{}} \cup {{[sugar_100g |-> s]} : s \in Sugars \cup {Unset}}]

\* The code only ever compares barcodes for equality, so every shape of
\* payload is tried on one barcode; the other barcode is a bystander that
\* Open Food Facts describes in one way only.
PlainRecord(barcode) ==
    [code |-> barcode, product_name |-> "n1", brand |-> Unset, nutriments |-> {}]

RawRecordsFor(barcode) ==
    IF barcode = "b1"
    THEN {r \in RawRecords : r.code = barcode /\ r.product_name # NoneVal}
    ELSE {PlainRecord(barcode)}

VARIABLES
    settings,     \* get_settings(): fixed for the life of the process
    now,          \* datetime.utcnow(), in days
    products,     \* table "products": set of rows
    nutrition,    \* table "normalized_nutrition": set of rows
    seed,         \* seed_from_openfoodfacts in progress: loop position, counts
    lastCall,     \* what the most recent request did and returned
    procs         \* requests in flight inside _create_or_update_product

vars == <<settings, now, products, nutrition, seed, lastCall, procs>>

\* ---------------------------------------------------------------- storage
NextId(rows) == IF rows = {} THEN 1
                ELSE 1 + (CHOOSE m \in {r.id : r \in rows} :
                            \A r \in rows : r.id <= m)

\* select(Product).where(Product.barcode == barcode) ... .first()
_get_from_database(db, barcode) ==
    LET hits == {p \in db.products : p.barcode = barcode}
    IN  IF hits = {} THEN {} ELSE {CHOOSE p \in hits : TRUE}

\* selectinload(Product.normalized_nutrition)
normalized_nutrition(db, product) ==
    {n \in db.nutrition : n.product_id = product.id}

\* Column default for a field the payload did not set.
Default(v) == IF v = Unset THEN NoneVal ELSE v

\* ------------------------------------------------------- freshness policy
_is_fresh_le(last_updated) ==
    IF last_updated = NoTime THEN FALSE
    ELSE (now - last_updated) <= settings.PRODUCT_CACHE_DAYS

_is_fresh_inverted(last_updated) ==
    IF last_updated = NoTime THEN FALSE
    ELSE (now - last_updated) > settings.PRODUCT_CACHE_DAYS

_is_fresh(last_updated) ==
    IF last_updated = NoTime THEN FALSE
    ELSE (now - last_updated) < settings.PRODUCT_CACHE_DAYS

\* ------------------------------------------------- external data client
\* OpenFoodFactsClient.parse_product: raw record -> ProductCreate.
parse_product(product_data) ==
    [barcode |-> product_data.code,
     name |-> product_data.product_name,
     brand |-> product_data.brand,
     normalized_nutrition |-> product_data.nutriments]

\* ----------------------------------------------------------------- upsert
\* Product(**product.dict(exclude={"normalized_nutrition"})), db.add, commit
_add_product(db, product) ==
    LET db_product == [id |-> NextId(db.products),
                       barcode |-> product.barcode,
                       name |-> product.name,
                       brand |-> Default(product.brand),
                       last_updated |-> now]
        db_nutrition == {[id |-> NextId(db.nutrition),
                          product_id |-> db_product.id,
                          sugar_100g |-> Default(n.sugar_100g)]
                         : n \in product.normalized_nutrition}
    IN  [products |-> db.products \cup {db_product},
         nutrition |-> db.nutrition \cup db_nutrition,
         product |-> db_product]

\* The setattr loop over new_data.dict(exclude_unset=True).
MergeFieldsAll(existing, new_data) ==
    [existing EXCEPT !.barcode = new_data.barcode,
                     !.name = new_data.name,
                     !.brand = Default(new_data.brand)]

MergeFields(existing, new_data) ==
    [existing EXCEPT !.barcode = new_data.barcode,
                     !.name = new_data.name,
                     !.brand = IF new_data.brand = Unset THEN @
                               ELSE new_data.brand]

\* Column(onupdate=datetime.utcnow): stamped when the flush emits an UPDATE
\* for the row, which it does only for a row with a changed column.
OnUpdate(old, new) ==
    IF new # old THEN [new EXCEPT !.last_updated = now] ELSE new

\* Nutrition rows of "existing" after the merge.
MergeNutrition(db, existing, new_data) ==
    LET old == normalized_nutrition(db, existing)
    IN  IF new_data.normalized_nutrition = {} THEN old
        ELSE IF old # {}
        THEN {[o EXCEPT !.sugar_100g = IF n.sugar_100g = Unset THEN @
                                       ELSE n.sugar_100g]
              : o \in old, n \in new_data.normalized_nutrition}
        ELSE {[id |-> NextId(db.nutrition),
               product_id |-> existing.id,
               sugar_100g |-> Default(n.sugar_100g)]
              : n \in new_data.normalized_nutrition}

_update_product_reinsert(db, existing, new_data) ==
    LET fresh == [MergeFields(existing, new_data)
                    EXCEPT !.id = NextId(db.products), !.last_updated = now]
    IN  [products |-> (db.products \ {existing}) \cup {fresh},
         nutrition |-> (db.nutrition \ normalized_nutrition(db, existing))
                         \cup {[n EXCEPT !.product_id = fresh.id]
                               : n \in MergeNutrition(db, existing, new_data)},
         product |-> fresh]

_update_product(db, existing, new_data) ==
    LET updated == OnUpdate(existing, MergeFields(existing, new_data))
    IN  [products |-> (db.products \ {existing}) \cup {updated},
         nutrition |-> (db.nutrition \ normalized_nutrition(db, existing))
                         \cup MergeNutrition(db, existing, new_data),
         product |-> updated]

_create_or_update_product(db, product) ==
    LET existing == _get_from_database(db, product.barcode)
    IN  IF existing # {}
        THEN _update_product(db, CHOOSE e \in existing : TRUE, product)
        ELSE _add_product(db, product)

\* ProductResponse(**product.dict(), normalized_nutrition=...)
_to_response(db, product) ==
    [id |-> product.id,
     barcode |-> product.barcode,
     name |-> product.name,
     brand |-> product.brand,
     last_updated |-> product.last_updated,
     normalized_nutrition |->
        {[sugar_100g |-> n.sugar_100g] : n \in normalized_nutrition(db, product)}]

\* ------------------------------------------------------ reconciliation
\* What the external client's get_product can do for a barcode: fail, report
\* no record, or hand back a record.  A record that parse_product cannot
\* digest ("parse_error") or whose write the database refuses
\* ("persist_error") ends the call the same way whatever the record holds,
\* so one record stands for each.
FetchError == [kind |-> "error", data |-> {}]
NotFound == [kind |-> "ok", data |-> {}]
ClientReplies(barcode) ==
    {FetchError, NotFound}
        \cup {[kind |-> "ok", data |-> {r}] : r \in RawRecordsFor(barcode)}
        \cup {[kind |-> k, data |-> {PlainRecord(barcode)}] :
                k \in {"parse_error", "persist_error"}}

\* No reply is drawn when the client is not called.
NoReply == [kind |-> "unused", data |-> {}]

\* What storage holds for a barcode, in the shape of a response.
Stored(db, barcode) ==
    {_to_response(db, p) : p \in {q \in db.products : q.barcode = barcode}}

\* "if not force_refresh: ... if product and self._is_fresh(...)"
CacheHitIgnoringFlag(db, barcode, force_refresh) ==
    \E p \in _get_from_database(db, barcode) : _is_fresh(p.last_updated)

CacheHit(db, barcode, force_refresh) ==
    /\ ~force_refresh
    /\ \E p \in _get_from_database(db, barcode) : _is_fresh(p.last_updated)

\* "if not product_data: return None"
AfterEmptyReplyStale(db, barcode) == Stored(db, barcode)

AfterEmptyReply(db, barcode) == {}

\* A call that ends without writing.
Unchanged(db, outcome, response, client_calls) ==
    [products |-> db.products, nutrition |-> db.nutrition,
     outcome |-> outcome, response |-> response,
     client_calls |-> client_calls, commits |-> 0]

\* The "async with OpenFoodFactsClient() as client" block.  An exception
\* (fetch, parse or commit) leaves the block uncaught; get_db rolls back.
FetchAndSave(db, barcode, reply) ==
    IF reply.kind = "error"
    THEN Unchanged(db, "fetch_error", {}, <<barcode>>)
    ELSE IF reply.data = {}
    THEN Unchanged(db, IF AfterEmptyReply(db, barcode) = {} THEN "none"
                       ELSE "product",
                   AfterEmptyReply(db, barcode), <<barcode>>)
    ELSE IF reply.kind # "ok"
    THEN Unchanged(db, reply.kind, {}, <<barcode>>)
    ELSE LET saved == _create_or_update_product(
                          db, parse_product(CHOOSE r \in reply.data : TRUE))
             db2 == [products |-> saved.products,
                     nutrition |-> saved.nutrition]
         IN  [products |-> saved.products, nutrition |-> saved.nutrition,
              outcome |-> "product",
              response |-> {_to_response(db2, saved.product)},
              client_calls |-> <<barcode>>, commits |-> 1]

get_by_barcode_fallback(db, barcode, force_refresh, reply) ==
    IF CacheHit(db, barcode, force_refresh)
    THEN Unchanged(db, "product", Stored(db, barcode), <<>>)
    ELSE IF reply.kind = "error" /\ Stored(db, barcode) # {}
    THEN Unchanged(db, "product", Stored(db, barcode), <<barcode>>)
    ELSE FetchAndSave(db, barcode, reply)

\* ProductService.get_by_barcode; reply is what client.get_product does
\* when it is reached.
get_by_barcode(db, barcode, force_refresh, reply) ==
    IF CacheHit(db, barcode, force_refresh)
    THEN Unchanged(db, "product",
                   {_to_response(db, p) : p \in _get_from_database(db, barcode)},
                   <<>>)
    ELSE FetchAndSave(db, barcode, reply)

\* --------------------------------------------------------------- search
\* "total_pages": (total + page_size - 1) // page_size
total_pages(total, page_size) == (total + page_size - 1) \div page_size

\* ProductService.search_products: the page query runs (one storage read),
\* then the count statement names "func", which the module never imports:
\* NameError leaves the call before "total" exists, so no result dictionary
\* is built for any input.
search_products(db, query, category, page, page_size) ==
    [outcome |-> "name_error", storage_reads |-> 1, result |-> {}]

\* Query(...) constraints of the route, checked before its body runs.
ValidSearchParams(q, category, page, page_size) ==
    /\ q = NoneVal \/ Len(q) >= 2
    /\ page >= 1
    /\ page_size >= 1 /\ page_size <= 100

\* "if not q and not category"
MissingFilterIsNone(q, category) == q = NoneVal /\ category = NoneVal

MissingFilter(q, category) ==
    /\ q \in {NoneVal, ""}
    /\ category \in {NoneVal, ""}

\* ----------------------------------------------------------------- seed
\* Records the external search can put in a batch: the well-formed ones and
\* one of each way of lacking a required field.
Malformed ==
    {[PlainRecord("b1") EXCEPT !.code = NoneVal],
     [PlainRecord("b1") EXCEPT !.product_name = NoneVal],
     [PlainRecord("b1") EXCEPT !.code = NoneVal, !.product_name = NoneVal]}

SeedRecords ==
    RawRecordsFor("b1") \cup RawRecordsFor("b2") \cup Malformed

\* "if not product_data.get("code") or not product_data.get("product_name")"
LacksRequiredCodeOnly(product_data) == product_data.code = NoneVal

LacksRequired(product_data) ==
    \/ product_data.code = NoneVal
    \/ product_data.product_name = NoneVal

IdleSeed ==
    [phase |-> "idle", n |-> 0, i |-> 0,
     added |-> 0, updated |-> 0, skipped |-> 0, errors |-> 0,
     commits |-> 0, lacking |-> 0, failed |-> 0, needs_rollback |-> FALSE]

\* One iteration of "for product_data in products" on the counters sd.
\* fate says whether parse_product ("parse_error") and the commit inside
\* _add_product/_update_product ("persist_error") go through.  A commit that
\* fails in its flush leaves the session refusing further work until
\* rollback(), which the loop never calls.  failed counts the records whose
\* own parse or write raised.
SeedOne(db, sd, product_data, fate) ==
    LET next == [sd EXCEPT !.i = @ + 1,
                           !.lacking = IF product_data.code = NoneVal
                                          \/ product_data.product_name = NoneVal
                                       THEN @ + 1 ELSE @]
        same(c) == [products |-> db.products, nutrition |-> db.nutrition,
                    seed |-> c]
    IN  IF LacksRequired(product_data)
        THEN same([next EXCEPT !.skipped = @ + 1])
        ELSE IF sd.needs_rollback
        THEN same([next EXCEPT !.errors = @ + 1])
        ELSE IF fate = "parse_error"
        THEN same([next EXCEPT !.errors = @ + 1, !.failed = @ + 1])
        ELSE IF fate = "persist_error"
        THEN same([next EXCEPT !.errors = @ + 1, !.failed = @ + 1,
                               !.needs_rollback = TRUE])
        ELSE LET existing == _get_from_database(db, product_data.code)
                 product == parse_product(product_data)
             IN  IF existing # {}
                 THEN LET w == _update_product(
                                   db, CHOOSE e \in existing : TRUE, product)
                      IN  [products |-> w.products, nutrition |-> w.nutrition,
                           seed |-> [next EXCEPT !.updated = @ + 1,
                                                 !.commits = @ + 1]]
                 ELSE LET w == _add_product(db, product)
                      IN  [products |-> w.products, nutrition |-> w.nutrition,
                           seed |-> [next EXCEPT !.added = @ + 1,
                                                 !.commits = @ + 1]]

\* ------------------------------------------------- concurrent requests
\* Each request has its own session; the awaits inside the upsert (parse,
\* the lookup by barcode, the commit) are where two requests interleave.
Procs == {"r1", "r2"}

IdleProc ==
    [pc |-> "idle", product |-> {}, existing |-> {}, existing_nutrition |-> {}]

\* barcode: SQLField(unique=True) -- the INSERT of a second row with a
\* stored barcode is refused.
UniqueBarcodeOff(db, row) == TRUE

UniqueBarcode(db, row) ==
    \A p \in db.products : p.id # row.id => p.barcode # row.barcode

\* product_id: SQLField(foreign_key="products.id", unique=True)
UniqueProductId(db, row) ==
    \A n \in db.nutrition : n.id # row.id => n.product_id # row.product_id

\* The UPDATE a flush emits for a row loaded earlier: the columns that the
\* setattr loop changed on the loaded copy are written to the stored row of
\* that primary key; other columns keep what is stored now.
FlushProduct(cur, loaded, merged) ==
    OnUpdate(cur,
             [cur EXCEPT !.name = IF merged.name # loaded.name
                                  THEN merged.name ELSE @,
                         !.brand = IF merged.brand # loaded.brand
                                   THEN merged.brand ELSE @])

\* _add_product in a session of its own: the commit goes through unless a
\* unique constraint refuses the INSERT.
CommitAdd(db, product) ==
    LET w == _add_product(db, product)
    IN  IF UniqueBarcode(db, w.product)
        THEN [products |-> w.products, nutrition |-> w.nutrition,
              outcome |-> "added"]
        ELSE [products |-> db.products, nutrition |-> db.nutrition,
              outcome |-> "integrity_error"]

\* _update_product on a row (and its nutrition) loaded at lookup time.
CommitUpdate(db, loaded, loaded_nutrition, new_data) ==
    LET merged == MergeFields(loaded, new_data)
        rows == {FlushProduct(cur, loaded, merged)
                 : cur \in {p \in db.products : p.id = loaded.id}}
        others == {p \in db.products : p.id # loaded.id}
        created == {[id |-> NextId(db.nutrition),
                     product_id |-> loaded.id,
                     sugar_100g |-> Default(n.sugar_100g)]
                    : n \in new_data.normalized_nutrition}
        refused == /\ loaded_nutrition = {}
                   /\ \E c \in created : ~UniqueProductId(db, c)
        nut == IF new_data.normalized_nutrition = {} THEN db.nutrition
               ELSE IF loaded_nutrition # {}
               THEN {IF \E o \in loaded_nutrition : o.id = cur.id
                     THEN [cur EXCEPT !.sugar_100g =
                             LET n == CHOOSE n \in new_data.normalized_nutrition
                                        : TRUE
                             IN  IF n.sugar_100g = Unset THEN @
                                 ELSE n.sugar_100g]
                     ELSE cur
                     : cur \in db.nutrition}
               ELSE db.nutrition \cup created
    IN  IF refused
        THEN [products |-> db.products, nutrition |-> db.nutrition,
              outcome |-> "integrity_error"]
        ELSE [products |-> others \cup rows, nutrition |-> nut,
              outcome |-> "updated"]

\* ---------------------------------------------------------------- actions
DB == [products |-> products, nutrition |-> nutrition]

NoCall == [op |-> "none"]

Init ==
    /\ settings \in [PRODUCT_CACHE_DAYS : CacheDayChoices]
    /\ now = 0
    /\ products = {}
    /\ nutrition = {}
    /\ seed = IdleSeed
    /\ lastCall = NoCall
    /\ procs = [p \in Procs |-> IdleProc]

Tick ==
    /\ now + ClockStep <= MaxTicks * ClockStep
    /\ now' = now + ClockStep
    /\ UNCHANGED <<settings, products, nutrition, seed, lastCall, procs>>

\* The previous call's response, when that call was this same request
\* answered by the external client with this same reply.
SameAsLast(barcode, force_refresh, reply) ==
    IF /\ lastCall.op = "get_product"
       /\ lastCall.barcode = barcode
       /\ lastCall.force_refresh = force_refresh
       /\ lastCall.reply = reply
    THEN lastCall.response ELSE {}

\* GET /products/{barcode}: the route, the service call and get_db's
\* commit-or-rollback around them.
get_product ==
    /\ seed.phase = "idle"
    /\ \E barcode \in Barcodes, force_refresh \in BOOLEAN :
        \E reply \in IF CacheHit(DB, barcode, force_refresh)
                      THEN {NoReply} ELSE ClientReplies(barcode) :
          LET r == get_by_barcode(DB, barcode, force_refresh, reply)
          IN  /\ products' = r.products
              /\ nutrition' = r.nutrition
              /\ lastCall' =
                   [op |-> "get_product",
                    barcode |-> barcode,
                    force_refresh |-> force_refresh,
                    reply |-> reply,
                    repeated |-> SameAsLast(barcode, force_refresh, reply),
                    outcome |-> r.outcome,
                    response |-> r.response,
                    client_calls |-> r.client_calls,
                    commits |-> r.commits,
                    status |-> IF r.outcome = "product" THEN 200
                               ELSE IF r.outcome = "none" THEN 404
                               ELSE 500]
    /\ UNCHANGED <<settings, now, seed, procs>>

\* GET /products/: parameter validation, the filter check, the service call.
SearchTexts == {NoneVal, "a", "ab"}
SearchCategories == {NoneVal, "", "dairy"}
SearchPages == {0, 1}
SearchPageSizes == {10}

api_search_products ==
    /\ seed.phase = "idle"
    /\ \E q \in SearchTexts, category \in SearchCategories,
          page \in SearchPages, page_size \in SearchPageSizes :
        LET valid == ValidSearchParams(q, category, page, page_size)
            reached == valid /\ ~MissingFilter(q, category)
            r == search_products(DB, q, category, page, page_size)
        IN  lastCall' =
              [op |-> "search",
               q |-> q, category |-> category,
               page |-> page, page_size |-> page_size,
               service_reached |-> reached,
               storage_reads |-> IF reached THEN r.storage_reads ELSE 0,
               result |-> IF reached THEN r.result ELSE {},
               status |-> IF ~valid THEN 422
                          ELSE IF ~reached THEN 400
                          ELSE IF r.outcome = "ok" THEN 200
                          ELSE 500]
    /\ UNCHANGED <<settings, now, products, nutrition, seed, procs>>

Next == Tick \/ get_product \/ api_search_products

Spec == Init /\ [][Next]_vars

\* seed_from_openfoodfacts, one action per step of the call: the external
\* search, each turn of the loop, the closing commit and return.
seed_search ==
    /\ seed.phase = "idle"
    /\ \/ /\ \E n \in 0 .. MaxBatch :
               seed' = [IdleSeed EXCEPT !.phase = "running", !.n = n]
          /\ lastCall' = [op |-> "seed", outcome |-> "running"]
       \/ /\ seed' = IdleSeed
          /\ lastCall' = [op |-> "seed", outcome |-> "fetch_error"]
    /\ UNCHANGED <<settings, now, products, nutrition, procs>>

seed_record ==
    /\ seed.phase = "running"
    /\ seed.i < seed.n
    /\ \E product_data \in SeedRecords :
        \E fate \in IF LacksRequired(product_data) \/ seed.needs_rollback
                     THEN {"ok"} ELSE {"ok", "parse_error", "persist_error"} :
          LET r == SeedOne(DB, seed, product_data, fate)
          IN  /\ products' = r.products
              /\ nutrition' = r.nutrition
              /\ seed' = r.seed
    /\ UNCHANGED <<settings, now, lastCall, procs>>

seed_finish ==
    /\ seed.phase = "running"
    /\ seed.i = seed.n
    /\ lastCall' =
         IF seed.needs_rollback
         THEN [op |-> "seed", outcome |-> "persist_error"]
         ELSE [op |-> "seed", outcome |-> "returned",
               total_processed |-> seed.n,
               added |-> seed.added, updated |-> seed.updated,
               skipped |-> seed.skipped, errors |-> seed.errors,
               commits |-> seed.commits + 1,
               lacking |-> seed.lacking]
    /\ seed' = IdleSeed
    /\ UNCHANGED <<settings, now, products, nutrition, procs>>

NextSeed == Tick \/ seed_search \/ seed_record \/ seed_finish

SpecSeed == Init /\ [][NextSeed]_vars

\* _create_or_update_product (and the same three steps in the seed loop)
\* for requests that run side by side.
upsert_parse ==
    \E p \in Procs :
      /\ procs[p].pc = "idle"
      /\ \E product_data \in RawRecordsFor("b1") \cup RawRecordsFor("b2") :
           procs' = [procs EXCEPT ![p] =
                       [IdleProc EXCEPT !.pc = "parsed",
                                        !.product = {parse_product(product_data)}]]
      /\ UNCHANGED <<settings, now, products, nutrition, seed, lastCall>>

upsert_lookup ==
    \E p \in Procs :
      /\ procs[p].pc = "parsed"
      /\ LET existing == UNION {_get_from_database(DB, d.barcode)
                                : d \in procs[p].product}
         IN  procs' = [procs EXCEPT ![p] =
                         [@ EXCEPT !.pc = "looked",
                                   !.existing = existing,
                                   !.existing_nutrition =
                                      UNION {normalized_nutrition(DB, e)
                                             : e \in existing}]]
      /\ UNCHANGED <<settings, now, products, nutrition, seed, lastCall>>

upsert_write ==
    \E p \in Procs :
      /\ procs[p].pc = "looked"
      /\ LET product == CHOOSE d \in procs[p].product : TRUE
             w == IF procs[p].existing # {}
                  THEN CommitUpdate(DB, CHOOSE e \in procs[p].existing : TRUE,
                                    procs[p].existing_nutrition, product)
                  ELSE CommitAdd(DB, product)
         IN  /\ products' = w.products
             /\ nutrition' = w.nutrition
             /\ lastCall' = [op |-> "upsert", proc |-> p,
                             barcode |-> product.barcode,
                             outcome |-> w.outcome]
      /\ procs' = [procs EXCEPT ![p] = IdleProc]
      /\ UNCHANGED <<settings, now, seed>>

NextRace == upsert_parse \/ upsert_lookup \/ upsert_write

SpecRace == Init /\ [][NextRace]_vars

\* ----------------------------------------------------------------- claims
\* A step that serves a lookup: the clock stands still and lastCall' tells
\* what the step did.
LookupStep == now' = now /\ lastCall'.op = "get_product"

IsLookup == lastCall.op = "get_product"

Age(p) == now - p.last_updated

RowsFor(barcode) == {p \in products : p.barcode = barcode}

\* C1: a lookup without force_refresh of a barcode whose stored record is
\* younger than the configured TTL returns exactly that stored record and
\* makes no call to the external client.
C1_CacheHit ==
    [][(/\ LookupStep
        /\ ~lastCall'.force_refresh
        /\ \E p \in RowsFor(lastCall'.barcode) :
              Age(p) < settings.PRODUCT_CACHE_DAYS)
       => (/\ lastCall'.client_calls = <<>>
           /\ lastCall'.outcome = "product"
           /\ lastCall'.status = 200
           /\ lastCall'.response = Stored(DB, lastCall'.barcode)
           /\ lastCall'.response # {})]_vars

\* A record written on an earlier day was served from the cache.
C1_Witness ==
    /\ IsLookup
    /\ ~lastCall.force_refresh
    /\ lastCall.client_calls = <<>>
    /\ lastCall.outcome = "product"
    /\ \E r \in lastCall.response : r.last_updated < now

\* C2: a lookup with force_refresh calls the external client's get_product
\* for the requested barcode, whatever local storage holds.
C2_ForceRefresh ==
    (IsLookup /\ lastCall.force_refresh)
        => lastCall.client_calls = <<lastCall.barcode>>

\* A forced lookup asked the client although a fresh record is stored.
C2_Witness ==
    /\ IsLookup
    /\ lastCall.force_refresh
    /\ lastCall.reply = NotFound
    /\ lastCall.client_calls = <<lastCall.barcode>>
    /\ \E p \in RowsFor(lastCall.barcode) :
          Age(p) < settings.PRODUCT_CACHE_DAYS

\* C3: when the external client is reached and reports no record, the lookup
\* returns None (404 at the route) and no stored record, stale or not.
C3_NotFoundWins ==
    (IsLookup /\ lastCall.reply = NotFound)
        => (/\ lastCall.outcome = "none"
            /\ lastCall.response = {}
            /\ lastCall.status = 404)

\* The client reported no record while a stale record was stored.
C3_Witness ==
    /\ IsLookup
    /\ ~lastCall.force_refresh
    /\ lastCall.reply = NotFound
    /\ lastCall.status = 404
    /\ \E p \in RowsFor(lastCall.barcode) :
          Age(p) >= settings.PRODUCT_CACHE_DAYS

\* The payload-carried fields of a response (everything but the timestamp
\* and the primary key).
DataFields(r) ==
    [barcode |-> r.barcode, name |-> r.name, brand |-> r.brand,
     normalized_nutrition |-> r.normalized_nutrition]

\* C4: two successive forced lookups of one barcode that the client answers
\* with the same record leave one stored product for the barcode, with the
\* same primary key and the same data fields after both.
C4_IdempotentUpsert ==
    [][(/\ LookupStep
        /\ IsLookup
        /\ lastCall.force_refresh /\ lastCall'.force_refresh
        /\ lastCall'.barcode = lastCall.barcode
        /\ lastCall'.reply = lastCall.reply
        /\ lastCall.outcome = "product" /\ lastCall'.outcome = "product")
       => (/\ Cardinality({p \in products' :
                              p.barcode = lastCall'.barcode}) = 1
           /\ \A r1 \in lastCall.response, r2 \in lastCall'.response :
                /\ r2.id = r1.id
                /\ DataFields(r2) = DataFields(r1)
           /\ lastCall'.response # {})]_vars

\* A forced lookup was repeated with the same reply, carrying nutrition.
C4_Witness ==
    /\ IsLookup
    /\ lastCall.force_refresh
    /\ lastCall.outcome = "product"
    /\ lastCall.repeated # {}
    /\ \E r \in lastCall.response : r.normalized_nutrition # {}

\* C5: _is_fresh(t) is true exactly when t is present and now - t is strictly
\* less than the configured number of days: false for an absent t, false at
\* now - t = TTL.
Timestamps == 0 .. (MaxTicks * ClockStep)

C5_Freshness ==
    /\ ~_is_fresh(NoTime)
    /\ \A t \in Timestamps :
          _is_fresh(t) <=> (t + settings.PRODUCT_CACHE_DAYS > now)
    /\ (now - settings.PRODUCT_CACHE_DAYS \in Timestamps)
          => ~_is_fresh(now - settings.PRODUCT_CACHE_DAYS)

\* A lookup met a record exactly TTL days old and went to the client.
C5_Witness ==
    /\ IsLookup
    /\ ~lastCall.force_refresh
    /\ lastCall.reply = NotFound
    /\ \E p \in RowsFor(lastCall.barcode) :
          Age(p) = settings.PRODUCT_CACHE_DAYS

\* C6: a lookup that merges a fetched payload into an existing product moves
\* the product's last_updated to the time of the refresh.
C6_LastUpdatedAdvances ==
    [][(/\ LookupStep
        /\ lastCall'.client_calls # <<>>
        /\ lastCall'.outcome = "product"
        /\ RowsFor(lastCall'.barcode) # {})
       => (\A p \in RowsFor(lastCall'.barcode), r \in lastCall'.response :
             /\ r.last_updated = now
             /\ r.last_updated >= p.last_updated)]_vars

\* C9: when the client's get_product fails, the lookup ends with that error
\* (no response, not a 404), the client was called once, and storage is as
\* it was before the call.
C9_FetchFailure ==
    [][(LookupStep /\ lastCall'.reply = FetchError)
       => (/\ lastCall'.outcome = "fetch_error"
           /\ lastCall'.response = {}
           /\ lastCall'.status = 500
           /\ lastCall'.client_calls = <<lastCall'.barcode>>
           /\ lastCall'.commits = 0
           /\ products' = products
           /\ nutrition' = nutrition)]_vars

\* The client failed while a stale record was stored; it was not served.
C9_Witness ==
    /\ IsLookup
    /\ ~lastCall.force_refresh
    /\ lastCall.reply = FetchError
    /\ lastCall.outcome = "fetch_error"
    /\ \E p \in RowsFor(lastCall.barcode) :
          Age(p) >= settings.PRODUCT_CACHE_DAYS

\* C10: a search request with neither a text query nor a category filter is
\* rejected by the route (400 when its other parameters are valid, 422 when
\* they are not) and neither the service nor storage is reached.
C10_SearchNeedsFilter ==
    (/\ lastCall.op = "search"
     /\ lastCall.q \in {NoneVal, ""}
     /\ lastCall.category \in {NoneVal, ""})
        => (/\ lastCall.status \in {400, 422}
            /\ (lastCall.page >= 1 /\ lastCall.page_size \in 1 .. 100)
                  => lastCall.status = 400
            /\ ~lastCall.service_reached
            /\ lastCall.storage_reads = 0)

\* search(None, None, 1, 10) was rejected with 400 over a non-empty store.
C10_Witness ==
    /\ lastCall.op = "search"
    /\ lastCall.q = NoneVal /\ lastCall.category = NoneVal
    /\ lastCall.page = 1 /\ lastCall.page_size = 10
    /\ lastCall.status = 400
    /\ products # {}

\* C7: a seed call that returns reports total_processed = the length of the
\* batch, counts every record in exactly one of added, updated, skipped and
\* errors (at every turn of the loop the four counts add up to the number of
\* records handled so far), and counts in skipped exactly the records that
\* lack a barcode or a display name.
C7_SeedClassification ==
    /\ seed.added + seed.updated + seed.skipped + seed.errors = seed.i
    /\ seed.skipped = seed.lacking
    /\ seed.i <= seed.n
    /\ (lastCall.op = "seed" /\ lastCall.outcome = "returned")
         => (/\ lastCall.added + lastCall.updated + lastCall.skipped
                  + lastCall.errors = lastCall.total_processed
             /\ lastCall.skipped = lastCall.lacking)

\* A call skipped a malformed record and still wrote a record.
C7_Witness ==
    /\ lastCall.op = "seed"
    /\ lastCall.outcome = "returned"
    /\ lastCall.skipped >= 1
    /\ lastCall.added + lastCall.updated >= 1
    /\ lastCall.total_processed = MaxBatch

\* C8: the record writes of one seed call are persisted by a single commit
\* for the whole call.
C8_SingleCommit ==
    (lastCall.op = "seed" /\ lastCall.outcome = "returned")
        => lastCall.commits = 1

\* C11: an accepted search (a filter given, page >= 1, page_size in 1..100)
\* returns a result whose total_pages is total / page_size rounded up and
\* whose items are at most page_size.
CeilDiv(a, b) == IF a % b = 0 THEN a \div b ELSE (a \div b) + 1

C11_Pagination ==
    (lastCall.op = "search" /\ lastCall.service_reached)
        => (/\ lastCall.status = 200
            /\ lastCall.result # {}
            /\ \A r \in lastCall.result :
                 /\ r.total_pages = CeilDiv(r.total, lastCall.page_size)
                 /\ Len(r.items) <= lastCall.page_size)

\* C12: whatever the interleaving of upserts, storage holds at most one
\* product per barcode and at most one nutrition row per product.
C12_BarcodeUnique ==
    /\ \A b \in Barcodes : Cardinality(RowsFor(b)) <= 1
    /\ \A p \in products :
          Cardinality({n \in nutrition : n.product_id = p.id}) <= 1

\* Two requests both found no row for the barcode; the second INSERT was
\* refused and one row is stored.
C12_Witness ==
    /\ lastCall.op = "upsert"
    /\ lastCall.outcome = "integrity_error"
    /\ Cardinality(RowsFor(lastCall.barcode)) = 1

\* C13: a record of a seed batch whose parse or write fails adds one to
\* errors and nothing else: errors counts exactly the records that failed,
\* the later records are handled as without the failure, and the call goes
\* on to return its counts.
C13_SeedErrorIsolation ==
    /\ seed.errors = seed.failed
    /\ lastCall.op = "seed" => lastCall.outcome # "persist_error"

\* A lookup step that merges a fetched payload into a stored product.
MergeStep ==
    /\ LookupStep
    /\ lastCall'.client_calls # <<>>
    /\ lastCall'.outcome = "product"
    /\ lastCall'.reply.data # {}
    /\ RowsFor(lastCall'.barcode) # {}

Payload == parse_product(CHOOSE r \in lastCall'.reply.data : TRUE)

NutritionOf(rows, p) == {n \in rows : n.product_id = p.id}

\* Payload fields overwrite, unset ones and the primary key stay, on the
\* product row and on its nutrition row.
MergedData(old, new) ==
    /\ new.id = old.id
    /\ new.barcode = Payload.barcode
    /\ new.name = Payload.name
    /\ new.brand = IF Payload.brand = Unset THEN old.brand ELSE Payload.brand
    /\ LET oldN == NutritionOf(nutrition, old)
           newN == NutritionOf(nutrition', old)
       IN  IF Payload.normalized_nutrition = {} THEN newN = oldN
           ELSE /\ Cardinality(newN) = 1
                /\ \A n \in newN, d \in Payload.normalized_nutrition :
                     IF oldN = {} THEN n.sugar_100g = Default(d.sugar_100g)
                     ELSE \E o \in oldN :
                            /\ n.id = o.id
                            /\ n.sugar_100g = IF d.sugar_100g = Unset
                                               THEN o.sugar_100g
                                               ELSE d.sugar_100g

\* Every other product and its nutrition are as before the merge.
OthersKept(old) ==
    /\ Cardinality(products') = Cardinality(products)
    /\ {p \in products' : p.id # old.id} = {p \in products : p.id # old.id}
    /\ {n \in nutrition' : n.product_id # old.id}
          = {n \in nutrition : n.product_id # old.id}

\* C14 as stated: a merge overwrites the fields the payload carries and
\* leaves every other field of the product (last_updated among them), its
\* primary key and all other products as they were.
C14_MergeFrameAllFields ==
    [][MergeStep
       => \A old \in RowsFor(lastCall'.barcode) :
            /\ \E new \in products' :
                  /\ MergedData(old, new)
                  /\ new.last_updated = old.last_updated
            /\ OthersKept(old)]_vars

\* C14, amended: a merge overwrites the fields the payload carries and
\* leaves the data fields the payload does not carry, the primary key and
\* all other products as they were; last_updated is outside the frame and
\* is either kept or moved to the time of the merge.
C14_MergeFrame ==
    [][MergeStep
       => \A old \in RowsFor(lastCall'.barcode) :
            /\ \E new \in products' :
                  /\ MergedData(old, new)
                  /\ new.last_updated \in {old.last_updated, now}
            /\ OthersKept(old)]_vars

\* A lookup merged a payload without a brand into a product that had one,
\* next to another stored product: the brand is still there.
C14_Witness ==
    /\ IsLookup
    /\ lastCall.client_calls # <<>>
    /\ lastCall.outcome = "product"
    /\ \E r \in lastCall.reply.data : r.brand = Unset /\ r.nutriments # {}
    /\ \E r \in lastCall.response : r.brand \in Brands
    /\ \E p \in products : p.barcode # lastCall.barcode

====
